---- MODULE Spec2Model ----
(***************************************************************************)
(* State-machine model of the SyncUsingWS synchronization engine:          *)
(*   pkg/sync/sync.go   (SyncManager: StartSync, BackupToWebDAV,           *)
(*                       RestoreFromWebDAV, SyncDirectory,                 *)
(*                       syncLocalToWebDAV, SyncFile, ...)                 *)
(*   pkg/client/webdav.go (listRemoteFiles, DownloadFileWithProgress, ...) *)
(*   pkg/util/retry.go  (Retry)                                            *)
(*                                                                         *)
(* A path string of the program ("d/f", "/d/f", "/", "") is modelled as a  *)
(* record [abs, comps]: abs tells whether the string starts with "/",      *)
(* comps is the sequence of its components.  Two strings are equal iff the *)
(* records are equal.  A location in a tree is the component sequence.     *)
(* Time is counted in ticks of half a second.                              *)
(***************************************************************************)
EXTENDS Integers, Sequences, FiniteSets, TLC

\* ------------------------------------------------------------------ bounds
\* largest modification time (in ticks) of a file
MaxTime == 3
\* number of I/O calls that may fail with an error in one behaviour
MaxFaults == 1
\* largest max_concurrent drawn for a run
MaxConcurrentBound == 2
\* largest max_retries drawn for a run
MaxRetriesBound == 2
\* number of successive runs of StartSync
MaxRuns == 2
\* largest attempt count handed to Retry on its own
MaxAttempts == 4
\* largest base delay handed to Retry on its own
MaxBaseDelay == 3
\* largest size in bytes of a file transferred with a progress callback
MaxSize == 3

\* ------------------------------------------------------- program constants
\* time.Second, in ticks
Second == 2

\* --------------------------------------------------------------- universe
Root == <<>>

\* the entries a tree may contain; "d" is a directory, the others are files
Entries == { <<"f">>, <<"f.download">>, <<"d">>, <<"d", "f">>, <<"d", "g">> }

DirEntries == { <<"d">> }

FileEntries == Entries \ DirEntries

\* names in ascending byte order
SortedNames == << "d", "f", "f.download", "f.download.download", "g", "g.download" >>

Parent(loc) == SubSeq(loc, 1, Len(loc) - 1)

Base(loc) == loc[Len(loc)]

\* tmpFile := localPath + ".download"
TmpLoc(loc) == Parent(loc) \o << Base(loc) \o ".download" >>

Locs == Entries \cup { TmpLoc(e) : e \in FileEntries }

\* ------------------------------------------------------------------ nodes
Absent == [kind |-> "none", mtime |-> 0, data |-> <<>>]

DirNode == [kind |-> "dir", mtime |-> 0, data |-> <<>>]

FileNode(t, d) == [kind |-> "file", mtime |-> t, data |-> d]

\* content of a file that the destination held before the run
Old(e) == <<"old">> \o e

\* content of a temporary file whose stream has not completed
Partial(e) == <<"partial">> \o e

PathsOf(fs) == { l \in Locs : fs[l].kind # "none" }

IsPrefix(a, b) == Len(a) <= Len(b) /\ SubSeq(b, 1, Len(a)) = a

\* os.RemoveAll / WebDAV DELETE of a collection: the path and all below it
RemoveTree(fs, loc) == [l \in Locs |-> IF IsPrefix(loc, l) THEN Absent ELSE fs[l]]

\* os.MkdirAll / MakeDir: the directory and its missing ancestors
RECURSIVE MkdirAll(_, _)
MkdirAll(fs, loc) ==
    IF loc = Root THEN fs
    ELSE LET up == MkdirAll(fs, Parent(loc))
         IN IF up[loc].kind = "none" THEN [up EXCEPT ![loc] = DirNode] ELSE up

\* children of a directory, in ascending name order
ChildrenSeq(fs, dir) ==
    LET all == [i \in 1 .. Len(SortedNames) |-> dir \o <<SortedNames[i]>>]
        ok(l) == l \in Locs /\ fs[l].kind # "none"
    IN SelectSeq(all, ok)

Range(s) == { s[i] : i \in 1 .. Len(s) }

ChildrenSet(fs, dir) == Range(ChildrenSeq(fs, dir))

\* ----------------------------------------------------------- path strings
Str(a, c) == [abs |-> a, comps |-> c]

SlashStr == Str(TRUE, <<>>)

EmptyStr == Str(FALSE, <<>>)

\* filepath.Join(LocalDir, p) and the URL the WebDAV client builds from p
LocOf(s) == s.comps

RECURSIVE NamesLen(_)
NamesLen(c) == IF c = <<>> THEN 0 ELSE Len(c[1]) + NamesLen(Tail(c))

\* len(p) of a path string
PathLen(s) ==
    (IF s.abs THEN 1 ELSE 0) + NamesLen(s.comps)
        + (IF Len(s.comps) > 1 THEN Len(s.comps) - 1 ELSE 0)

\* listRemoteFiles: "/" is put in front of a path without one, "/" becomes ""
NormRemote(p) ==
    LET q == IF p.abs THEN p ELSE Str(TRUE, p.comps)
    IN IF q = SlashStr THEN EmptyStr ELSE q

\* listRemoteFiles: path of an entry named n of the listed directory
ChildPath(rp, n) ==
    IF rp = EmptyStr THEN Str(FALSE, <<n>>) ELSE Str(rp.abs, rp.comps \o <<n>>)

listRemoteFiles(fs, remotePath) ==
    LET rp   == NormRemote(remotePath)
        kids == ChildrenSeq(fs, rp.comps)
    IN [i \in 1 .. Len(kids) |->
            [Path         |-> ChildPath(rp, Base(kids[i])),
             IsDir        |-> fs[kids[i]].kind = "dir",
             LastModified |-> fs[kids[i]].mtime]]

ListFiles(fs, remotePath) == listRemoteFiles(fs, remotePath)

RECURSIVE buildRemoteFileList(_, _)
\* mutant: the listed path itself is added for the root as well
buildRemoteFileListWithRoot(fs, remotePath) ==
    LET entries == ListFiles(fs, remotePath)
        RECURSIVE each(_)
        each(i) ==
            IF i > Len(entries) THEN <<>>
            ELSE <<entries[i].Path>>
                 \o (IF entries[i].IsDir
                     THEN buildRemoteFileList(fs, entries[i].Path) ELSE <<>>)
                 \o each(i + 1)
    IN <<remotePath>> \o each(1)

buildRemoteFileList(fs, remotePath) ==
    LET entries == ListFiles(fs, remotePath)
        self    == IF remotePath # SlashStr /\ remotePath # EmptyStr
                   THEN <<remotePath>> ELSE <<>>
        RECURSIVE each(_)
        each(i) ==
            IF i > Len(entries) THEN <<>>
            ELSE <<entries[i].Path>>
                 \o (IF entries[i].IsDir
                     THEN buildRemoteFileList(fs, entries[i].Path) ELSE <<>>)
                 \o each(i + 1)
    IN self \o each(1)

\* filepath.Walk below dir, each path made relative to LocalDir
RECURSIVE walkLocal(_, _)
walkLocal(fs, dir) ==
    LET kids == ChildrenSeq(fs, dir)
        RECURSIVE walk(_)
        walk(i) ==
            IF i > Len(kids) THEN <<>>
            ELSE <<Str(FALSE, kids[i])>>
                 \o (IF fs[kids[i]].kind = "dir" THEN walkLocal(fs, kids[i]) ELSE <<>>)
                 \o walk(i + 1)
    IN walk(1)

buildLocalFileList(fs) == walkLocal(fs, Root)

findExtraFiles(source, target) ==
    LET notInTarget(f) == f \notin Range(target)
    IN SelectSeq(source, notInTarget)

\* ------------------------------------------------------ transfer decision
\* localModTime.Add(time.Second).After(other) &&
\* localModTime.Add(-time.Second).Before(other)
WithinTolerance(localMod, otherMod) ==
    localMod + Second > otherMod /\ localMod - Second < otherMod

\* mutant: the flag starts out false, an absent destination is skipped
NeedsTransferAbsentSkipped(exists, localMod, otherMod) ==
    exists /\ ~WithinTolerance(localMod, otherMod)

\* needsUpload / needsDownload
NeedsTransfer(exists, localMod, otherMod) ==
    IF exists THEN ~WithinTolerance(localMod, otherMod) ELSE TRUE

\* -------------------------------------------------------------- util.Retry
Nil == [kind |-> "nil", at |-> <<>>, n |-> 0]

Err(k, loc) == [kind |-> k, at |-> loc, n |-> 0]

\* var err error, before the first call of operation()
NoErr == "nil"

\* errors operation() may return; Retry looks at none of them
ErrKinds == {"transient", "permanent"}

\* fmt.Errorf("... %d ...: %v", attempts, err)
RetryError(attempts, err) == [n |-> attempts, cause |-> err]

NoRetryError == RetryError(0, NoErr)

\* mutant: the loop test is i <= attempts
RetryLoopOneMore(r) ==
    IF r.i <= r.attempts THEN [r EXCEPT !.pc = "call"]
    ELSE [r EXCEPT !.pc = "returned", !.ret = "err",
                   !.msg = RetryError(r.attempts, r.err)]

\* the loop test i < attempts, before the first call and after i++
RetryLoop(r) ==
    IF r.i < r.attempts THEN [r EXCEPT !.pc = "call"]
    ELSE [r EXCEPT !.pc = "returned", !.ret = "err",
                   !.msg = RetryError(r.attempts, r.err)]

\* mutant: operation() is called once before the loop test
RetryStartCallsFirst(attempts, sleep) ==
    [attempts |-> attempts, base |-> sleep, sleep |-> sleep, i |-> 0,
     outs |-> <<>>, slept |-> <<>>, pc |-> "call", ret |-> "none",
     err |-> NoErr, seen |-> <<>>, msg |-> NoRetryError]

\* var err error; i := 0 and the first loop test
RetryStart(attempts, sleep) ==
    RetryLoop([attempts |-> attempts, base |-> sleep, sleep |-> sleep, i |-> 0,
               outs |-> <<>>, slept |-> <<>>, pc |-> "call", ret |-> "none",
               err |-> NoErr, seen |-> <<>>, msg |-> NoRetryError])

\* mutant: the loop does not return on err == nil
RetryAfterOpGoesOn(r, err) ==
    LET r1 == [r EXCEPT !.outs = Append(@, err = NoErr), !.seen = Append(@, err),
                        !.err = err]
    IN IF r1.i < r1.attempts - 1 THEN [r1 EXCEPT !.pc = "sleep"]
       ELSE RetryLoop([r1 EXCEPT !.i = @ + 1])

\* the body of the loop once operation() has returned err
RetryAfterOp(r, err) ==
    LET r1 == [r EXCEPT !.outs = Append(@, err = NoErr), !.seen = Append(@, err),
                        !.err = err]
    IN IF err = NoErr THEN [r1 EXCEPT !.pc = "returned", !.ret = "nil"]
       ELSE IF r1.i < r1.attempts - 1 THEN [r1 EXCEPT !.pc = "sleep"]
       ELSE RetryLoop([r1 EXCEPT !.i = @ + 1])

\* mutant: the delay stops growing at twice the base delay
RetryAfterSleepCapped(r) ==
    RetryLoop([r EXCEPT !.slept = Append(@, r.sleep),
                        !.sleep = IF @ * 2 > 2 * r.base THEN 2 * r.base ELSE @ * 2,
                        !.i = @ + 1])

\* time.Sleep(sleep); sleep *= 2; i++
RetryAfterSleep(r) ==
    RetryLoop([r EXCEPT !.slept = Append(@, r.sleep), !.sleep = @ * 2, !.i = @ + 1])

RetryIdle ==
    [attempts |-> 0, base |-> 0, sleep |-> 0, i |-> 0,
     outs |-> <<>>, slept |-> <<>>, pc |-> "idle", ret |-> "none",
     err |-> NoErr, seen |-> <<>>, msg |-> NoRetryError]

\* ------------------------------------------- transfers with a progress callback
\* DownloadFileWithProgress / UploadFileWithProgress with progressCb != nil:
\*   total  totalSize, the size Stat reported
\*   actual number of bytes the stream delivers
\*   left   bytes of the stream not read yet
\*   moved  downloaded / uploaded, the counter of the closure
\*   mine   progress events of the current call
\*   events bytesMoved of every event the callback got for this file
ProgressIdle ==
    [total |-> 0, actual |-> 0, left |-> 0, moved |-> 0, mine |-> 0, events |-> <<>>]

\* a call begins: downloaded := int64(0), the stream is at its start
ProgressStart(p) == [p EXCEPT !.left = p.actual, !.moved = 0, !.mine = 0]

\* a Read of n > 0 bytes, then updateProgress(n); late is elapsed >= 0.1:
\*   downloaded += int64(n)
\*   if elapsed >= 0.1 || downloaded == int64(n) || downloaded >= totalSize
\*       progressCb(downloaded, totalSize, speed, percentage)
updateProgress(p, n, late) ==
    LET moved == p.moved + n
        emit  == late \/ moved = n \/ moved >= p.total
    IN [p EXCEPT !.left = @ - n, !.moved = moved,
                 !.mine = IF emit THEN @ + 1 ELSE @,
                 !.events = IF emit THEN Append(@, moved) ELSE @]

\* bytes the current call has copied so far
Transferred(p) == p.actual - p.left

\* ------------------------------------------------------------------ state
VARIABLES
    config,     \* Mode, SyncDelete, MaxConcurrent, MaxRetries, RetryDelay
    lfs,        \* the local tree below LocalDir
    rfs,        \* the remote tree
    phase,      \* position of StartSync
    run,        \* number of the current run
    prelist,    \* the file list built before the pass
    toDelete,   \* filesToDelete, what is left of it
    passErr,    \* err of the pass
    result,     \* what StartSync returned
    pc,         \* position of the goroutine of each entry
    held,       \* goroutines holding a slot of s.semaphore
    dec,        \* what a file task found and decided
    rt,         \* the Retry call of a file task
    dl,         \* a download: the destination file at the call, and how it went
    errs,       \* errorsCh of each directory level
    xfers,      \* entries whose transfer was called in this run
    faults,     \* I/O calls that have failed so far
    dst0,       \* paths of the destination tree when StartSync was called
    budget,     \* I/O calls that may fail in this behaviour
    retry,      \* a Retry call on its own
    progress    \* a transfer with a progress callback inside that call

runVars == << config, lfs, rfs, phase, run, prelist, toDelete, passErr, result,
              pc, held, dec, rt, dl, errs, xfers, faults, dst0, budget >>

vars == << config, lfs, rfs, phase, run, prelist, toDelete, passErr, result,
           pc, held, dec, rt, dl, errs, xfers, faults, dst0, budget, retry, progress >>

Backup == "backup"

Restore == "restore"

Src == IF config.Mode = Backup THEN lfs ELSE rfs

Dst == IF config.Mode = Backup THEN rfs ELSE lfs

Levels == DirEntries \cup {Root}

NoDownload == [pre |-> Absent, status |-> "none"]

NoDecision == [made |-> FALSE, exists |-> FALSE, localMod |-> 0, otherMod |-> 0,
               needs |-> FALSE]

\* the clock of the machine that stamps a newly written file
Now == MaxTime

\* ------------------------------------------------------------------- Init
IsTree(t) == \A e \in t : Parent(e) = Root \/ Parent(e) \in t

\* the trees of the runs in which at most MaxFaults calls fail
Trees == { t \in SUBSET (Entries \ { <<"d", "g">> }) : IsTree(t) }

SourceTrees == Trees

\* modification times of the source files: the oldest and the newest
SourceTimes == {0, MaxTime}

DestTrees == Trees

\* modification times of the destination files: with the two source times
\* they give differences below, at and above one second, of either sign
DestTimes == 0 .. Second

TreeFs(t, time, old) ==
    [l \in Locs |->
        IF l \notin t THEN Absent
        ELSE IF l \in DirEntries THEN DirNode
        ELSE FileNode(time, IF old THEN Old(l) ELSE l)]

Configs ==
    [Mode : {Backup, Restore}, SyncDelete : BOOLEAN,
     MaxConcurrent : {1, MaxConcurrentBound},
     MaxRetries : {1, MaxRetriesBound}, RetryDelay : {1}]

InitTasks ==
    /\ phase = "start"
    /\ prelist = <<>>
    /\ toDelete = <<>>
    /\ passErr = Nil
    /\ result = "none"
    /\ pc = [e \in Entries |-> "idle"]
    /\ held = {}
    /\ dec = [e \in Entries |-> NoDecision]
    /\ rt = [e \in Entries |-> RetryIdle]
    /\ dl = [e \in Entries |-> NoDownload]
    /\ errs = [l \in Levels |-> <<>>]
    /\ xfers = {}

Init ==
    /\ config \in Configs
    /\ \E s \in SourceTrees, d \in DestTrees, st \in SourceTimes, dt \in DestTimes :
          /\ lfs = IF config.Mode = Backup THEN TreeFs(s, st, FALSE) ELSE TreeFs(d, dt, TRUE)
          /\ rfs = IF config.Mode = Backup THEN TreeFs(d, dt, TRUE) ELSE TreeFs(s, st, FALSE)
    /\ dst0 = PathsOf(Dst)
    /\ budget = MaxFaults
    /\ run = 1
    /\ faults = 0
    /\ InitTasks
    /\ retry = RetryIdle
    /\ progress = ProgressIdle

\* ------------------------------------------------------------ the pool
\* mutant: the send on the semaphore never blocks
SlotFreeAlways == TRUE

\* s.semaphore <- struct{}{} goes through only while a slot is free
SlotFree == Cardinality(held) < config.MaxConcurrent

\* an I/O call may still fail
MayFail == faults < budget

\* mutant: the goroutine sends its error twice
SendTwice(ch, e, err) == [ch EXCEPT ![Parent(e)] = Append(Append(@, err), err)]

\* errorsCh of the level an entry belongs to
Send(ch, e, err) == [ch EXCEPT ![Parent(e)] = Append(@, err)]

\* fmt.Errorf("...%d个错误，第一个错误: %v", len(syncErrors), syncErrors[0])
LevelErr(ch) ==
    IF Len(ch) > 0 THEN [kind |-> "level", at |-> ch[1].at, n |-> Len(ch)] ELSE Nil

AllDone(level) == \A c \in ChildrenSet(Src, level) : pc[c] = "done"

\* sortedFiles := append(directories, regularFiles...), each group sorted by Path
sortedFiles(level) ==
    LET kids     == ChildrenSeq(Src, level)
        isDir(l) == Src[l].kind = "dir"
        isReg(l) == Src[l].kind # "dir"
    IN SelectSeq(kids, isDir) \o SelectSeq(kids, isReg)

\* for _, file := range sortedFiles { wg.Add(1); go func(file) {...}(file) }
Spawn(level) ==
    [e \in Entries |-> IF e \in Range(sortedFiles(level)) THEN "wait" ELSE pc[e]]

\* FileInfo.Path of an entry as the recursion of SyncDirectory meets it:
\* listRemoteFiles applied to the Path of the parent entry, "/" at the top
RECURSIVE RemotePathOf(_)
RemotePathOf(e) ==
    IF e = Root THEN SlashStr
    ELSE ChildPath(NormRemote(RemotePathOf(Parent(e))), Base(e))

\* path string an entry carries in its task
\*   pull: FileInfo.Path
\*   push: remotePath = filepath.Join(relativePath, entryName), from "/"
TaskPath(e) == IF config.Mode = Backup THEN Str(TRUE, e) ELSE RemotePathOf(e)

\* ------------------------------------------------- StartSync, both modes
\* the directories a walk or a recursive listing of a tree reads
DirsOf(fs) == {Root} \cup { l \in DirEntries : fs[l].kind = "dir" }

\* BackupToWebDAV / RestoreFromWebDAV: the list built before the pass
BuildPreList ==
    /\ phase = "start"
    /\ prelist' = IF config.Mode = Backup THEN buildLocalFileList(lfs)
                  ELSE buildRemoteFileList(rfs, SlashStr)
    /\ phase' = "prelisted"
    /\ UNCHANGED << config, dst0, budget, lfs, rfs, run, toDelete, passErr, result, pc, held,
                    dec, rt, dl, errs, xfers, faults, retry, progress >>

\* the walk / the recursive listing fails at one of the directories
BuildPreListFail ==
    /\ phase = "start"
    /\ MayFail
    /\ faults' = faults + 1
    /\ phase' = "returned"
    /\ result' = "err"
    /\ \E at \in DirsOf(Src) : passErr' = Err("prelist", at)
    /\ UNCHANGED << config, dst0, budget, lfs, rfs, run, prelist, toDelete, pc, held,
                    dec, rt, dl, errs, xfers, retry, progress >>

\* SyncDirectory("/") / syncLocalToWebDAV("/") up to the go statements
RootList ==
    /\ phase = "prelisted"
    /\ pc' = Spawn(Root)
    /\ phase' = "pass"
    /\ UNCHANGED << config, dst0, budget, lfs, rfs, run, prelist, toDelete, passErr, result,
                    held, dec, rt, dl, errs, xfers, faults, retry, progress >>

RootListFail ==
    /\ phase = "prelisted"
    /\ MayFail
    /\ faults' = faults + 1
    /\ passErr' = Err("list", Root)
    /\ phase' = "joined"
    /\ UNCHANGED << config, dst0, budget, lfs, rfs, run, prelist, toDelete, result, pc, held,
                    dec, rt, dl, errs, xfers, retry, progress >>

\* wg.Wait(); close(errorsCh); the errors are collected
RootJoin ==
    /\ phase = "pass"
    /\ AllDone(Root)
    /\ passErr' = LevelErr(errs[Root])
    /\ phase' = "joined"
    /\ UNCHANGED << config, dst0, budget, lfs, rfs, run, prelist, toDelete, result, pc, held,
                    dec, rt, dl, errs, xfers, faults, retry, progress >>

\* ------------------------------------------------ deletion reconciliation
\* mutant: filesToDelete is not sorted
LongestUnsorted(s) == 1 .. Len(s)

\* sort.Slice(filesToDelete, len(a) > len(b)): the loop meets a longest
\* remaining path next; the order among paths of equal length is open
Longest(s) == { i \in 1 .. Len(s) : \A j \in 1 .. Len(s) : PathLen(s[j]) <= PathLen(s[i]) }

Without(s, i) == SubSeq(s, 1, i - 1) \o SubSeq(s, i + 1, Len(s))

\* if s.config.SyncDelete && err == nil
DeletionWanted == config.SyncDelete /\ passErr = Nil

\* the second list, findExtraFiles and the sort
Reconcile ==
    /\ phase = "joined"
    /\ DeletionWanted
    /\ toDelete' = IF config.Mode = Backup
                   THEN findExtraFiles(buildRemoteFileList(rfs, SlashStr), prelist)
                   ELSE findExtraFiles(buildLocalFileList(lfs), prelist)
    /\ phase' = "deleting"
    /\ UNCHANGED << config, dst0, budget, lfs, rfs, run, prelist, passErr, result, pc, held,
                    dec, rt, dl, errs, xfers, faults, retry, progress >>

\* the second list cannot be built: StartSync returns that error
ReconcileFail ==
    /\ phase = "joined"
    /\ DeletionWanted
    /\ MayFail
    /\ faults' = faults + 1
    /\ phase' = "returned"
    /\ result' = "err"
    /\ \E at \in DirsOf(Dst) : passErr' = Err("postlist", at)
    /\ UNCHANGED << config, dst0, budget, lfs, rfs, run, prelist, toDelete, pc, held,
                    dec, rt, dl, errs, xfers, retry, progress >>

\* os.RemoveAll(localPath) / s.client.RemoveRemote(filePath)
DeletePath(fs, path) == RemoveTree(fs, LocOf(path))

DeleteOne ==
    /\ phase = "deleting"
    /\ \E i \in Longest(toDelete) :
          /\ toDelete' = Without(toDelete, i)
          /\ IF config.Mode = Backup
             THEN rfs' = DeletePath(rfs, toDelete[i]) /\ lfs' = lfs
             ELSE lfs' = DeletePath(lfs, toDelete[i]) /\ rfs' = rfs
    /\ UNCHANGED << config, dst0, budget, phase, run, prelist, passErr, result, pc, held,
                    dec, rt, dl, errs, xfers, faults, retry, progress >>

\* the delete fails: a warning is logged and the loop goes on
DeleteOneFail ==
    /\ phase = "deleting"
    /\ MayFail
    /\ faults' = faults + 1
    /\ \E i \in Longest(toDelete) : toDelete' = Without(toDelete, i)
    /\ UNCHANGED << config, dst0, budget, lfs, rfs, phase, run, prelist, passErr, result, pc,
                    held, dec, rt, dl, errs, xfers, retry, progress >>

\* the end of BackupToWebDAV / RestoreFromWebDAV
Return ==
    /\ \/ phase = "joined" /\ ~DeletionWanted
       \/ phase = "deleting" /\ toDelete = <<>>
    /\ phase' = "returned"
    /\ result' = IF passErr = Nil THEN "nil" ELSE "err"
    /\ UNCHANGED << config, dst0, budget, lfs, rfs, run, prelist, toDelete, passErr, pc, held,
                    dec, rt, dl, errs, xfers, faults, retry, progress >>

\* StartSync is called again on the trees the clean run before it left
StartAgain ==
    /\ phase = "returned"
    /\ result = "nil"
    /\ faults = 0
    /\ run < MaxRuns
    /\ run' = run + 1
    /\ phase' = "start"
    /\ prelist' = <<>>
    /\ toDelete' = <<>>
    /\ passErr' = Nil
    /\ result' = "none"
    /\ pc' = [e \in Entries |-> "idle"]
    /\ held' = {}
    /\ dec' = [e \in Entries |-> NoDecision]
    /\ rt' = [e \in Entries |-> RetryIdle]
    /\ dl' = [e \in Entries |-> NoDownload]
    /\ errs' = [l \in Levels |-> <<>>]
    /\ xfers' = {}
    /\ dst0' = PathsOf(Dst)
    /\ UNCHANGED << config, budget, lfs, rfs, faults, retry, progress >>

\* --------------------------------------------------- the goroutine of an entry
\* mutant: a goroutine that returns an error cancels the waiting goroutines
\* of its level
FinishFailFast(e, err) ==
    /\ pc' = [x \in Entries |->
                IF x = e \/ (err # Nil /\ Parent(x) = Parent(e) /\ pc[x] = "wait")
                THEN "done" ELSE pc[x]]
    /\ held' = held \ {e}
    /\ errs' = IF err = Nil THEN errs ELSE Send(errs, e, err)

\* the goroutine returns: its error goes to errorsCh of its level, the
\* deferred functions give the slot back and call wg.Done
Finish(e, err) ==
    /\ pc' = [pc EXCEPT ![e] = "done"]
    /\ held' = held \ {e}
    /\ errs' = IF err = Nil THEN errs ELSE Send(errs, e, err)

\* s.semaphore <- struct{}{}
Acquire(e) ==
    /\ pc[e] = "wait"
    /\ SlotFree
    /\ held' = held \cup {e}
    /\ pc' = [pc EXCEPT ![e] = IF Src[e].kind = "dir" THEN "ensure" ELSE "decide"]
    /\ UNCHANGED << config, dst0, budget, lfs, rfs, phase, run, prelist, toDelete, passErr,
                    result, dec, rt, dl, errs, xfers, faults, retry, progress >>

\* mutant: the directory is visited without being created at the destination
EnsureDirSkipped(e) ==
    /\ pc[e] = "ensure"
    /\ pc' = [pc EXCEPT ![e] = "list"]
    /\ UNCHANGED << config, dst0, budget, lfs, rfs, phase, run, prelist, toDelete, passErr,
                    result, held, dec, rt, dl, errs, xfers, faults, retry, progress >>

\* pull: os.MkdirAll(localDirPath)
\* push: FileExists(remotePath), then MakeDir(remotePath) when it is absent
EnsureDir(e) ==
    /\ pc[e] = "ensure"
    /\ IF Dst[e].kind = "file" /\ config.Mode = Restore
       THEN /\ Finish(e, Err("mkdir", e))
            /\ UNCHANGED << lfs, rfs >>
       ELSE /\ pc' = [pc EXCEPT ![e] = "list"]
            /\ IF config.Mode = Backup
               THEN rfs' = MkdirAll(rfs, e) /\ lfs' = lfs
               ELSE lfs' = MkdirAll(lfs, e) /\ rfs' = rfs
            /\ UNCHANGED << held, errs >>
    /\ UNCHANGED << config, dst0, budget, phase, run, prelist, toDelete, passErr, result,
                    dec, rt, dl, xfers, faults, retry, progress >>

EnsureDirFail(e) ==
    /\ pc[e] = "ensure"
    /\ MayFail
    /\ faults' = faults + 1
    /\ Finish(e, Err("mkdir", e))
    /\ UNCHANGED << config, dst0, budget, lfs, rfs, phase, run, prelist, toDelete, passErr,
                    result, dec, rt, dl, xfers, retry, progress >>

\* the recursive call s.SyncDirectory(file.Path) / s.syncLocalToWebDAV(entryRelPath)
\* up to its go statements
ListDir(e) ==
    /\ pc[e] = "list"
    /\ pc' = [Spawn(e) EXCEPT ![e] = "join"]
    /\ UNCHANGED << config, dst0, budget, lfs, rfs, phase, run, prelist, toDelete, passErr,
                    result, held, dec, rt, dl, errs, xfers, faults, retry, progress >>

\* the recursive call cannot list its directory
ListDirFail(e) ==
    /\ pc[e] = "list"
    /\ MayFail
    /\ faults' = faults + 1
    /\ Finish(e, Err("list", e))
    /\ UNCHANGED << config, dst0, budget, lfs, rfs, phase, run, prelist, toDelete, passErr,
                    result, dec, rt, dl, xfers, retry, progress >>

\* the recursive call returns after wg.Wait()
JoinDir(e) ==
    /\ pc[e] = "join"
    /\ AllDone(e)
    /\ Finish(e, LevelErr(errs[e]))
    /\ UNCHANGED << config, dst0, budget, lfs, rfs, phase, run, prelist, toDelete, passErr,
                    result, dec, rt, dl, xfers, faults, retry, progress >>

\* filepath.Dir of a path string below "/"
DirStr(p) == Str(p.abs, Parent(p.comps))

\* syncLocalFileToWebDAV: LastModified of the listed entry whose base name
\* is that of remotePath; none when the listing has no such entry
RemoteMatch(e) ==
    LET listing == ListFiles(rfs, DirStr(TaskPath(e)))
    IN { listing[i].LastModified :
            i \in { j \in 1 .. Len(listing) : Base(listing[j].Path.comps) = Base(e) } }

\* what SyncFile / syncLocalFileToWebDAV find before they decide
Found(e) ==
    IF config.Mode = Backup
    THEN LET m == RemoteMatch(e)
         IN [exists   |-> rfs[e].kind # "none",
             found    |-> rfs[e].kind # "none" /\ m # {},
             localMod |-> lfs[e].mtime,
             otherMod |-> IF m = {} THEN 0 ELSE CHOOSE t \in m : TRUE]
    ELSE [exists   |-> lfs[e].kind # "none",
          found    |-> lfs[e].kind # "none",
          localMod |-> lfs[e].mtime,
          otherMod |-> rfs[e].mtime]

\* SyncFile / syncLocalFileToWebDAV up to the call of util.Retry
Decide(e) ==
    /\ pc[e] = "decide"
    /\ LET f     == Found(e)
           needs == NeedsTransfer(f.found, f.localMod, f.otherMod)
           r     == RetryStart(config.MaxRetries, config.RetryDelay)
       IN /\ dec' = [dec EXCEPT ![e] = [made |-> TRUE, exists |-> f.exists,
                                        localMod |-> f.localMod,
                                        otherMod |-> f.otherMod, needs |-> needs]]
          /\ IF ~needs
             THEN Finish(e, Nil) /\ UNCHANGED << lfs, rt >>
             ELSE /\ lfs' = IF config.Mode = Restore THEN MkdirAll(lfs, Parent(e)) ELSE lfs
                  /\ rt' = [rt EXCEPT ![e] = r]
                  /\ IF r.pc = "returned"
                     THEN Finish(e, Err("retry", e))
                     ELSE pc' = [pc EXCEPT ![e] = "call"] /\ UNCHANGED << held, errs >>
    /\ UNCHANGED << config, dst0, budget, rfs, phase, run, prelist, toDelete, passErr, result,
                    dl, xfers, faults, retry, progress >>

\* mutant: the task that returns the error of the check keeps its slot
DecideFailKeepsSlot(e) ==
    /\ pc[e] = "decide"
    /\ config.Mode = Backup
    /\ MayFail
    /\ faults' = faults + 1
    /\ pc' = [pc EXCEPT ![e] = "done"]
    /\ errs' = Send(errs, e, Err("check", e))
    /\ held' = held
    /\ UNCHANGED << config, dst0, budget, lfs, rfs, phase, run, prelist, toDelete, passErr,
                    result, dec, rt, dl, xfers, retry, progress >>

\* push: FileExists or ListFiles fails, the error is returned as it is
DecideFail(e) ==
    /\ pc[e] = "decide"
    /\ config.Mode = Backup
    /\ MayFail
    /\ faults' = faults + 1
    /\ Finish(e, Err("check", e))
    /\ UNCHANGED << config, dst0, budget, lfs, rfs, phase, run, prelist, toDelete, passErr,
                    result, dec, rt, dl, xfers, retry, progress >>

\* operation() has returned inside util.Retry
AttemptDone(e, ok) ==
    LET r == RetryAfterOp(rt[e], IF ok THEN NoErr ELSE "transient")
    IN /\ rt' = [rt EXCEPT ![e] = r]
       /\ IF r.pc = "returned"
          THEN Finish(e, IF r.ret = "nil" THEN Nil ELSE Err("retry", e))
          ELSE pc' = [pc EXCEPT ![e] = "sleep"] /\ UNCHANGED << held, errs >>

\* time.Sleep(sleep) is over
Wake(e) ==
    /\ pc[e] = "sleep"
    /\ rt' = [rt EXCEPT ![e] = RetryAfterSleep(rt[e])]
    /\ pc' = [pc EXCEPT ![e] = "call"]
    /\ UNCHANGED << config, dst0, budget, lfs, rfs, phase, run, prelist, toDelete, passErr,
                    result, held, dec, dl, errs, xfers, faults, retry, progress >>

\* ------------------------------------------------ DownloadFileWithProgress
\* c.client.Stat, c.ReadStream and os.Create(tmpFile) have succeeded
DownloadCreate(fs, e) == [fs EXCEPT ![TmpLoc(e)] = FileNode(Now, Partial(e))]

\* mutant: the deferred function does not remove tmpFile
DownloadCleanupKeepsTmp(fs, e) == fs

\* the deferred function after an error: file.Close(); os.Remove(tmpFile)
DownloadCleanup(fs, e) == [fs EXCEPT ![TmpLoc(e)] = Absent]

\* the stream is complete: file.Close(), os.Rename(tmpFile, localPath),
\* os.Chtimes(localPath, remoteModTime, remoteModTime).  The file that moves
\* is the one tmpFile names at that moment.
DownloadCommit(fs, e, src) ==
    LET atTmp == fs[TmpLoc(e)]
        moved == IF atTmp.data = Partial(e) THEN src.data ELSE atTmp.data
    IN [fs EXCEPT ![TmpLoc(e)] = Absent, ![e] = FileNode(src.mtime, moved)]

BeginDownload(e) ==
    /\ pc[e] = "call"
    /\ config.Mode = Restore
    /\ dl' = [dl EXCEPT ![e] = [pre |-> lfs[e], status |-> "streaming"]]
    /\ lfs' = DownloadCreate(lfs, e)
    /\ pc' = [pc EXCEPT ![e] = "copy"]
    /\ xfers' = xfers \cup {e}
    /\ UNCHANGED << config, dst0, budget, rfs, phase, run, prelist, toDelete, passErr, result,
                    held, dec, rt, errs, faults, retry, progress >>

\* Stat or ReadStream fails: nothing was created
BeginDownloadFail(e) ==
    /\ pc[e] = "call"
    /\ config.Mode = Restore
    /\ MayFail
    /\ faults' = faults + 1
    /\ dl' = [dl EXCEPT ![e] = [pre |-> lfs[e], status |-> "unopened"]]
    /\ xfers' = xfers \cup {e}
    /\ AttemptDone(e, FALSE)
    /\ UNCHANGED << config, dst0, budget, lfs, rfs, phase, run, prelist, toDelete, passErr,
                    result, dec >>
    /\ UNCHANGED << retry, progress >>

EndDownload(e) ==
    /\ pc[e] = "copy"
    /\ IF lfs[TmpLoc(e)].kind = "none"
       THEN \* os.Rename finds no tmpFile
            /\ lfs' = DownloadCleanup(lfs, e)
            /\ dl' = [dl EXCEPT ![e].status = "unrenamed"]
            /\ AttemptDone(e, FALSE)
       ELSE /\ lfs' = DownloadCommit(lfs, e, rfs[e])
            /\ dl' = [dl EXCEPT ![e].status = "renamed"]
            /\ AttemptDone(e, TRUE)
    /\ UNCHANGED << config, dst0, budget, rfs, phase, run, prelist, toDelete, passErr, result,
                    dec, xfers, faults, retry, progress >>

\* the stream breaks
EndDownloadFail(e) ==
    /\ pc[e] = "copy"
    /\ MayFail
    /\ faults' = faults + 1
    /\ lfs' = DownloadCleanup(lfs, e)
    /\ dl' = [dl EXCEPT ![e].status = "broken"]
    /\ AttemptDone(e, FALSE)
    /\ UNCHANGED << config, dst0, budget, rfs, phase, run, prelist, toDelete, passErr, result,
                    dec, xfers, retry, progress >>

\* -------------------------------------------------- UploadFileWithProgress
\* MakeDir(remoteDir) unless remoteDir is "/", then WriteStream; the server
\* stamps the file with its own clock, localModTime is not sent
UploadWrite(fs, e, src) ==
    [MkdirAll(fs, Parent(e)) EXCEPT ![e] = FileNode(Now, src.data)]

Upload(e) ==
    /\ pc[e] = "call"
    /\ config.Mode = Backup
    /\ rfs' = UploadWrite(rfs, e, lfs[e])
    /\ xfers' = xfers \cup {e}
    /\ AttemptDone(e, TRUE)
    /\ UNCHANGED << config, dst0, budget, lfs, phase, run, prelist, toDelete, passErr, result,
                    dec, dl, faults, retry, progress >>

UploadFail(e) ==
    /\ pc[e] = "call"
    /\ config.Mode = Backup
    /\ MayFail
    /\ faults' = faults + 1
    /\ xfers' = xfers \cup {e}
    /\ AttemptDone(e, FALSE)
    /\ UNCHANGED << config, dst0, budget, lfs, rfs, phase, run, prelist, toDelete, passErr,
                    result, dec, dl, retry, progress >>

\* ------------------------------------------------------------ the run
Task(e) ==
    \/ Acquire(e)
    \/ EnsureDir(e)
    \/ EnsureDirFail(e)
    \/ ListDir(e)
    \/ ListDirFail(e)
    \/ JoinDir(e)
    \/ Decide(e)
    \/ DecideFail(e)
    \/ BeginDownload(e)
    \/ BeginDownloadFail(e)
    \/ EndDownload(e)
    \/ EndDownloadFail(e)
    \/ Upload(e)
    \/ UploadFail(e)
    \/ Wake(e)

Next ==
    \/ BuildPreList
    \/ BuildPreListFail
    \/ RootList
    \/ RootListFail
    \/ RootJoin
    \/ Reconcile
    \/ ReconcileFail
    \/ DeleteOne
    \/ DeleteOneFail
    \/ Return
    \/ StartAgain
    \/ \E e \in Entries : Task(e)

Spec == Init /\ [][Next]_vars

\* ------------------------------- runs in which one call more may fail
\* a directory with two files: several tasks of one level can fail
FaultyTree == { <<"d">>, <<"d", "f">>, <<"d", "g">> }

FaultyConfigs ==
    [Mode : {Backup, Restore}, SyncDelete : BOOLEAN,
     MaxConcurrent : {MaxConcurrentBound, MaxConcurrentBound + 1},
     MaxRetries : {-1, 0, 1, MaxRetriesBound}, RetryDelay : {1}]

\* the source is FaultyTree, newer than what the destination holds
InitFaulty ==
    /\ config \in FaultyConfigs
    /\ \E d \in {{}, FaultyTree} :
          /\ lfs = IF config.Mode = Backup THEN TreeFs(FaultyTree, MaxTime, FALSE)
                   ELSE TreeFs(d, 0, TRUE)
          /\ rfs = IF config.Mode = Backup THEN TreeFs(d, 0, TRUE)
                   ELSE TreeFs(FaultyTree, MaxTime, FALSE)
    /\ dst0 = PathsOf(Dst)
    /\ budget = MaxFaults + 1
    /\ run = 1
    /\ faults = 0
    /\ InitTasks
    /\ retry = RetryIdle
    /\ progress = ProgressIdle

SpecFaulty == InitFaulty /\ [][Next]_vars

\* ------------------------------------------------- util.Retry on its own
Attempts == -1 .. MaxAttempts

BaseDelays == 0 .. MaxBaseDelay

InitRetry ==
    /\ \E a \in Attempts, b \in BaseDelays : retry = RetryStart(a, b)
    /\ config = [Mode |-> Restore, SyncDelete |-> FALSE, MaxConcurrent |-> 1,
                 MaxRetries |-> 1, RetryDelay |-> 1]
    /\ lfs = TreeFs({}, 0, FALSE)
    /\ rfs = TreeFs({}, 0, FALSE)
    /\ dst0 = {}
    /\ budget = 0
    /\ run = 1
    /\ faults = 0
    /\ InitTasks
    /\ progress = ProgressIdle

\* operation() returns nil
OperationSucceeds ==
    /\ retry.pc = "call"
    /\ retry' = RetryAfterOp(retry, NoErr)
    /\ UNCHANGED << runVars, progress >>

\* operation() returns an error
OperationFails ==
    /\ retry.pc = "call"
    /\ \E err \in ErrKinds : retry' = RetryAfterOp(retry, err)
    /\ UNCHANGED << runVars, progress >>

\* time.Sleep(sleep) returns
SleepOver ==
    /\ retry.pc = "sleep"
    /\ retry' = RetryAfterSleep(retry)
    /\ UNCHANGED << runVars, progress >>

NextRetry == OperationSucceeds \/ OperationFails \/ SleepOver

SpecRetry == InitRetry /\ [][NextRetry]_vars

\* ------------------------------ one transfer with progress inside util.Retry
Sizes == 0 .. MaxSize

InitProgress ==
    /\ \E a \in 1 .. MaxRetriesBound : retry = RetryStart(a, 1)
    /\ \E t \in Sizes, n \in Sizes :
          progress = ProgressStart([ProgressIdle EXCEPT !.total = t, !.actual = n])
    /\ config = [Mode |-> Restore, SyncDelete |-> FALSE, MaxConcurrent |-> 1,
                 MaxRetries |-> 1, RetryDelay |-> 1]
    /\ lfs = TreeFs({}, 0, FALSE)
    /\ rfs = TreeFs({}, 0, FALSE)
    /\ dst0 = {}
    /\ budget = 0
    /\ run = 1
    /\ faults = 0
    /\ InitTasks

\* io.CopyBuffer reads the next n bytes of the stream
ReadChunk ==
    /\ retry.pc = "call"
    /\ progress.left > 0
    /\ \E n \in 1 .. progress.left, late \in BOOLEAN :
          progress' = updateProgress(progress, n, late)
    /\ UNCHANGED << runVars, retry >>

\* the stream is at its end: the call returns nil
TransferCompletes ==
    /\ retry.pc = "call"
    /\ progress.left = 0
    /\ retry' = RetryAfterOp(retry, NoErr)
    /\ UNCHANGED << runVars, progress >>

\* Stat, the open of the stream or a Read fails: the call returns the error
TransferFails ==
    /\ retry.pc = "call"
    /\ \E err \in ErrKinds : retry' = RetryAfterOp(retry, err)
    /\ UNCHANGED << runVars, progress >>

\* time.Sleep(sleep) returns and operation() is called again
TransferAgain ==
    /\ retry.pc = "sleep"
    /\ retry' = RetryAfterSleep(retry)
    /\ progress' = ProgressStart(progress)
    /\ UNCHANGED runVars

NextProgress == ReadChunk \/ TransferCompletes \/ TransferFails \/ TransferAgain

SpecProgress == InitProgress /\ [][NextProgress]_vars

\* ======================================================================
\* Properties
\* ======================================================================
Returned == phase = "returned"

Abs(x) == IF x < 0 THEN 0 - x ELSE x

\* no source file has the name that the temporary file of another one gets
NoTmpClash == \A e \in FileEntries : Src[e].kind # "none" => Src[TmpLoc(e)].kind = "none"

\* C1: after a run with SyncDelete on that returns nil, the paths of the
\* destination tree are exactly the paths of the source tree (stated for the
\* runs in which no I/O call failed and no temporary name clashes).
C1_ExactMirror ==
    (Returned /\ result = "nil" /\ config.SyncDelete /\ faults = 0 /\ NoTmpClash)
        => PathsOf(Dst) = PathsOf(Src)

\* C2: a step of the deletion reconciliation removes from the destination only
\* paths that the source tree does not contain.
C2_DeletesOnlyExtras ==
    [][ phase = "deleting" =>
          \A l \in Locs :
             (Dst[l].kind # "none" /\ Dst'[l].kind = "none") => Src[l].kind = "none" ]_vars

\* a state that ends a run without a return: tasks wait for a slot, every slot is held by a
\* directory task that waits for its own children, and no step is possible.
Stuck ==
    /\ phase = "pass"
    /\ \E e \in Entries : pc[e] = "wait"
    /\ ~SlotFree
    /\ \A e \in Entries : pc[e] \in {"idle", "wait", "join", "done"}
    /\ \A e \in Entries : pc[e] = "join" => ~AllDone(e)

\* C3: every spawned task gets its slot and the run returns, so a run never
\* comes to a state in which tasks wait for a slot and nothing can move.
C3_NoTaskWaitsForever == ~Stuck

\* C4: the tasks holding a slot, directory tasks and file tasks of all levels
\* together, are never more than max_concurrent.
C4_ConcurrencyBound == Cardinality(held) <= config.MaxConcurrent

\* C4 witness: the pool is full with a directory task and a file task of the
\* level below it, and another task is waiting for a slot.
C4_PoolFull ==
    /\ Cardinality(held) = config.MaxConcurrent
    /\ held = { <<"d">>, <<"d", "f">> }
    /\ \E e \in Entries : pc[e] = "wait"

\* C5: after a run without SyncDelete that returns nil, every path of the
\* source tree exists in the destination tree.
C5_CleanRunComplete ==
    (Returned /\ result = "nil" /\ ~config.SyncDelete)
        => PathsOf(Src) \subseteq PathsOf(Dst)

\* C5 fails through the clash of temporary names only
C5_CompleteUnlessClash == NoTmpClash => C5_CleanRunComplete

\* C6: the run that follows a clean run, with no I/O call failing, calls no
\* transfer.
C6_SecondRunIdle == (run >= 2 /\ faults = 0) => xfers = {}

\* C7: a file whose destination exists is transferred iff the two
\* modification times differ by more than one second.
C7_OneSecondTolerance ==
    \A e \in FileEntries :
        (dec[e].made /\ dec[e].exists)
            => (dec[e].needs <=> Abs(dec[e].localMod - dec[e].otherMod) > Second)

C10_RetryStopsAtSuccess ==
    (retry.pc = "returned" /\ retry.attempts >= 1)
        => LET n == Len(retry.outs)
           IN /\ (retry.ret = "nil") <=> (\E k \in 1 .. n : retry.outs[k])
              /\ retry.ret = "nil" =>
                    /\ n <= retry.attempts
                    /\ retry.outs[n]
                    /\ \A j \in 1 .. n - 1 : ~retry.outs[j]

\* C10 witness: two failures, then success at the third of three attempts.
C10_ThirdSucceeds ==
    /\ retry.pc = "returned"
    /\ retry.ret = "nil"
    /\ retry.attempts = 3
    /\ retry.outs = << FALSE, FALSE, TRUE >>

\* C11: when every call of the operation fails, whatever the errors are, Retry
\* with attempts >= 1 calls it exactly attempts times and returns an error that
\* carries the attempt count and the error of the last call; at no time has it
\* called the operation more often than attempts.
C11_RetryExhaustion ==
    /\ retry.attempts >= 1 => Len(retry.seen) <= retry.attempts
    /\ (retry.pc = "returned" /\ retry.attempts >= 1
            /\ \A k \in 1 .. Len(retry.seen) : retry.seen[k] # NoErr)
         => /\ Len(retry.seen) = retry.attempts
            /\ retry.ret = "err"
            /\ retry.msg = RetryError(retry.attempts, retry.seen[retry.attempts])

\* C11 witness: three attempts failed with errors of both kinds, the last one
\* transient.
C11_ThreeFailed ==
    /\ retry.pc = "returned"
    /\ retry.ret = "err"
    /\ retry.attempts = 3
    /\ retry.seen = << "permanent", "permanent", "transient" >>

\* C12: the k-th sleep of a Retry call lasts baseDelay * 2^(k-1); every call
\* of the operation but the last is followed by exactly one sleep, and the
\* last call, failed or not, by none.
C12_BackoffSchedule ==
    /\ \A k \in 1 .. Len(retry.slept) : retry.slept[k] = retry.base * 2 ^ (k - 1)
    /\ retry.pc = "call" => Len(retry.slept) = Len(retry.outs)
    /\ retry.pc = "sleep" =>
          /\ Len(retry.slept) = Len(retry.outs) - 1
          /\ Len(retry.outs) < retry.attempts
          /\ ~retry.outs[Len(retry.outs)]
    /\ (retry.pc = "returned" /\ Len(retry.outs) > 0) =>
          /\ Len(retry.slept) = Len(retry.outs) - 1
          /\ retry.ret = "err" => Len(retry.outs) = retry.attempts

\* C12 witness: four attempts that all failed, with base delay 3: the sleeps
\* were 3, 6 and 12, and none followed the fourth failure.
C12_ThreeSleeps ==
    /\ retry.pc = "returned"
    /\ retry.ret = "err"
    /\ retry.attempts = 4
    /\ retry.base = 3
    /\ retry.slept = << 3, 6, 12 >>

\* C13: a run without SyncDelete removes nothing from the destination tree:
\* when it returns, every path the destination had when the run began is
\* still there (stated for the runs in which no I/O call failed).
C13_NoDeletionWithoutFlag ==
    (Returned /\ ~config.SyncDelete /\ faults = 0) => dst0 \subseteq PathsOf(Dst)

ProperAncestor(a, b) == Len(a) < Len(b) /\ IsPrefix(a, b)

\* C14: when the deletion loop issues the delete of a path, no path that lies
\* below it is left in the deletion set: of two paths of the set of which one
\* is a proper ancestor of the other, the descendant is deleted first.
C14_ChildBeforeParent ==
    [][ (phase = "deleting" /\ toDelete' # toDelete)
          => \E i \in 1 .. Len(toDelete) :
                /\ toDelete' = Without(toDelete, i)
                /\ \A j \in 1 .. Len(toDelete) :
                      ~ProperAncestor(LocOf(toDelete[i]), LocOf(toDelete[j])) ]_vars

\* C14 witness: the destination had d and d/f, both extra; the loop has
\* deleted d/f and the delete of d is still to come.
C14_ChildGoneParentLeft ==
    /\ phase = "deleting"
    /\ <<"d", "f">> \in dst0
    /\ Dst[<<"d", "f">>].kind = "none"
    /\ Dst[<<"d">>].kind = "dir"
    /\ Src[<<"d">>].kind = "none"
    /\ \E i \in 1 .. Len(toDelete) : LocOf(toDelete[i]) = <<"d">>

\* the pass has listed the root and joined its tasks
PassJoined ==
    /\ phase \in {"joined", "deleting", "returned"}
    /\ passErr.kind \notin {"prelist", "list"}

\* the error an entry's own task sent to errorsCh of its level
OwnErrors(e) ==
    { i \in 1 .. Len(errs[Parent(e)]) :
         errs[Parent(e)][i].at = e /\ errs[Parent(e)][i].kind # "level" }

\* the task of an entry was started and has run to its end
Executed(e) ==
    /\ pc[e] = "done"
    /\ e \in FileEntries => dec[e].made \/ OwnErrors(e) # {}

\* C15: when the pass is over, the task of every source entry has been started
\* and has run to its end, whatever tasks failed; the only entries without a
\* task are those below a directory whose own task failed.
C15_NoFailFast ==
    PassJoined =>
        \A e \in Entries :
            Src[e].kind # "none"
                => \/ Executed(e)
                   \/ Parent(e) # Root /\ OwnErrors(Parent(e)) # {}

\* C15 witness: the pass is over; the transfer of f failed, and the task of
\* its sibling f.download was run and has transferred its file.
C15_SiblingsWentOn ==
    /\ PassJoined
    /\ OwnErrors(<<"f">>) # {}
    /\ Len(errs[Root]) = 1
    /\ Executed(<<"f.download">>)
    /\ <<"f.download">> \in xfers
    /\ Dst[<<"f.download">>] = Src[<<"f.download">>]

\* the listing of the root directory itself failed, before, in or after the pass
RootEnumerationFailed ==
    passErr.kind \in {"prelist", "list", "postlist"} /\ passErr.at = Root

\* entries whose own task failed
FailedTasks == { e \in Entries : OwnErrors(e) # {} }

\* C16: a run returns an error iff the enumeration of the root failed or the
\* task of some entry, at any depth, failed; a failed delete does not make the
\* run fail.
C16_RunOutcome ==
    Returned => ((result = "err") <=> (RootEnumerationFailed \/ FailedTasks # {}))

\* C17: the error count a failed run reports is the number of tasks that
\* failed in the whole run, at all levels.
C17_TotalErrorCount ==
    (Returned /\ result = "err" /\ passErr.kind = "level")
        => passErr.n = Cardinality(FailedTasks)

\* the errors of the pass are errors of file transfers only
OnlyTransferErrors ==
    /\ passErr.kind \in {"nil", "level"}
    /\ \A l \in Levels : \A i \in 1 .. Len(errs[l]) : errs[l][i].kind \in {"retry", "level"}

\* C18: with SyncDelete on, a pass whose only errors are errors of file
\* transfers is followed by the deletion reconciliation: the run does not
\* return from the pass without it.
C18_DeletionAfterFileErrors ==
    [][ (phase = "joined" /\ config.SyncDelete /\ OnlyTransferErrors)
          => ~(phase' = "returned" /\ passErr' = passErr) ]_vars

\* the destination tree as it was when StartSync was called
Tree0 ==
    [l \in Locs |-> IF l \notin dst0 THEN Absent
                    ELSE IF l \in DirEntries THEN DirNode ELSE FileNode(0, <<>>)]

\* the path list of a destination tree
DestList(fs) ==
    IF config.Mode = Backup THEN buildRemoteFileList(fs, SlashStr)
    ELSE buildLocalFileList(fs)

\* C19: the deletion set is computed from lists of the two trees as they were
\* before the pass: the list of the destination it uses is the list of the
\* destination tree the run started with.
C19_PrePassSnapshot ==
    [][ (phase = "joined" /\ phase' = "deleting")
          => toDelete' = findExtraFiles(DestList(Tree0), prelist) ]_vars

\* C20: when the listing of a subdirectory has failed, the task of every
\* source entry outside that subdirectory has still been run when the run
\* returns.
C20_SubdirListingScope ==
    \A d \in DirEntries :
        (Returned /\ (\/ passErr = Err("prelist", d)
                      \/ \E i \in OwnErrors(d) : errs[Parent(d)][i].kind = "list"))
            => \A e \in Entries :
                  (Src[e].kind # "none" /\ ~IsPrefix(d, e)) => Executed(e)

\* --------------------------------------------------------------- C21
\* C21: no delete is issued for the destination root: every step of the
\* deletion loop handles one path of filesToDelete, and that path names
\* a location strictly below the root
C21_RootNeverDeleted ==
    [][ (phase = "deleting" /\ toDelete' # toDelete) =>
          \E i \in 1 .. Len(toDelete) :
             /\ toDelete' = Without(toDelete, i)
             /\ LocOf(toDelete[i]) # Root
             /\ Len(LocOf(toDelete[i])) >= 1 ]_vars

\* the deletion loop has removed a path of the destination and goes on
C21_DeletedBelowRoot ==
    /\ phase = "deleting"
    /\ toDelete # <<>>
    /\ \E l \in dst0 : Dst[l].kind = "none"

\* --------------------------------------------------------------- C22
\* the task of directory d returned the error of its MkdirAll / MakeDir
MkdirFailed(d) ==
    \E i \in 1 .. Len(errs[Parent(d)]) :
        errs[Parent(d)][i].kind = "mkdir" /\ errs[Parent(d)][i].at = d

\* C22: during the pass a task below a subdirectory has been started only
\* when that subdirectory exists at the destination, and no task below a
\* directory whose creation failed has been started
C22_DirBeforeDescendants ==
    phase = "pass" =>
        /\ \A e \in Entries :
              (Parent(e) # Root /\ pc[e] # "idle") => Dst[Parent(e)].kind = "dir"
        /\ \A d \in DirEntries :
              MkdirFailed(d) => \A e \in Entries : IsPrefix(d, e) /\ e # d => pc[e] = "idle"

\* a task below d runs with d created by this run, and elsewhere a failed
\* creation has left every task below the directory unstarted
C22_ChildStartedInNewDir ==
    /\ phase = "pass"
    /\ \E e \in Entries :
          /\ Parent(e) # Root
          /\ Parent(e) \notin dst0
          /\ pc[e] \notin {"idle", "wait"}
          /\ Dst[Parent(e)].kind = "dir"

\* the creation of d has failed and the pass goes on without its subtree
C22_FailedDirNoChildren ==
    /\ phase = "pass"
    /\ \E d \in DirEntries :
          MkdirFailed(d) /\ \A e \in Entries : Parent(e) = d => pc[e] = "idle"

\* --------------------------------------------------------------- C23
\* x stands before e in sortedFiles of their common level
ListedBefore(x, e) ==
    /\ Parent(x) = Parent(e)
    /\ LET s == sortedFiles(Parent(e))
       IN \E i, j \in 1 .. Len(s) : i < j /\ s[i] = x /\ s[j] = e

\* C23: within one level tasks begin in list order: when the task of an
\* entry takes its slot and begins, no entry listed before it on the same
\* level is still waiting to begin
C23_BeginInListOrder ==
    [][ \A e \in Entries :
          (pc[e] = "wait" /\ pc'[e] # "wait") =>
              \A x \in Entries : ListedBefore(x, e) => pc[x] # "wait" ]_vars

\* --------------------------------------------------------------- C24
\* C24: every error the task of a file reports is the one util.Retry
\* returns after MaxRetries failed attempts: a failing existence check,
\* listing or transfer is retried until the attempts are used up
C24_OnlyRetryExhaustion ==
    \A e \in FileEntries :
        \A i \in OwnErrors(e) :
            /\ errs[Parent(e)][i].kind = "retry"
            /\ rt[e].pc = "returned"
            /\ rt[e].ret = "err"
            /\ Len(rt[e].outs) = config.MaxRetries
            /\ \A k \in 1 .. Len(rt[e].outs) : ~rt[e].outs[k]

\* --------------------------------------------------------------- C25
\* the entry of a level whose goroutine sent err to errorsCh of that level
SenderOf(level, err) ==
    CHOOSE e \in Entries : Parent(e) = level /\ IsPrefix(e, err.at)

\* C25: once the tasks of a level are joined, the error reported as the
\* first one is that of the failing entry that comes first in list order,
\* whatever the order in which the tasks finished
C25_FirstErrorInListOrder ==
    \A level \in Levels :
        (AllDone(level) /\ Len(errs[level]) > 0) =>
            \A i \in 1 .. Len(errs[level]) :
                ~ListedBefore(SenderOf(level, errs[level][i]),
                              SenderOf(level, LevelErr(errs[level])))

\* --------------------------------------------------------------- C26
\* no element occurs twice in the list
NoDuplicates(s) == \A i, j \in 1 .. Len(s) : s[i] = s[j] => i = j

\* C26: the list built of the source tree before the pass, and the list
\* the same moment would give of the destination tree, each name every
\* path below their root exactly once and never the root, and a location
\* has the same string in both lists
C26_EnumerationUnique ==
    phase \in {"prelisted", "pass"} =>
        LET other == IF config.Mode = Backup THEN buildRemoteFileList(rfs, SlashStr)
                     ELSE buildLocalFileList(lfs)
        IN /\ NoDuplicates(prelist)
           /\ NoDuplicates(other)
           /\ { LocOf(prelist[i]) : i \in 1 .. Len(prelist) } = PathsOf(Src)
           /\ { LocOf(other[i]) : i \in 1 .. Len(other) } = PathsOf(Dst)
           /\ \A i \in 1 .. Len(prelist) : \A j \in 1 .. Len(other) :
                 LocOf(prelist[i]) = LocOf(other[j]) => prelist[i] = other[j]

\* --------------------------------------------------------------- C27
\* C27: the deletion loop attempts every path of the deletion set exactly
\* once, whatever the earlier deletes did: the set holds no path twice,
\* every step of the loop handles one path and leaves the others to be
\* handled, and the loop ends only when none is left
C27_BestEffortDeletion ==
    [][ /\ (phase = "joined" /\ phase' = "deleting") => NoDuplicates(toDelete')
        /\ (phase = "deleting" /\ toDelete' # toDelete) =>
              \E i \in 1 .. Len(toDelete) : toDelete' = Without(toDelete, i)
        /\ (phase = "deleting" /\ phase' # "deleting") => toDelete = <<>> ]_vars

\* --------------------------------------------------------------- C28
\* tasks that hold a slot and are not asleep between two attempts
Awake == { e \in held : pc[e] # "sleep" }

\* C28: the sleep between two attempts of util.Retry takes no slot from the
\* other tasks: a waiting task can take a slot whenever fewer than
\* MaxConcurrent tasks that are not asleep hold one
C28_SleepHoldsNoSlot ==
    \A x \in Entries :
        (pc[x] = "wait" /\ Cardinality(Awake) < config.MaxConcurrent) => SlotFree

\* --------------------------------------------------------------- C29
\* C29: the bytesMoved values the progress callback gets for one file never
\* decrease, over all calls util.Retry makes for that file
C29_MonotoneProgress ==
    \A i, j \in 1 .. Len(progress.events) :
        i <= j => progress.events[i] <= progress.events[j]

\* --------------------------------------------------------------- C30
\* C30: a transfer that util.Retry reports as done has delivered at least
\* one progress event in its successful call, and the last event carries
\* the number of bytes that call has copied, whatever the size of the file
\* and whatever size Stat reported
C30_FinalProgressEvent ==
    (retry.pc = "returned" /\ retry.ret = "nil") =>
        /\ progress.mine >= 1
        /\ progress.events[Len(progress.events)] = Transferred(progress)

\* --------------------------------------------------------------- C31
\* wg.Wait() of the level has not returned yet: errorsCh is not closed
LevelOpen(level) == IF level = Root THEN phase = "pass" ELSE pc[level] = "join"

\* entries of a level whose goroutine has sent to errorsCh of the level
SendersOf(level, ch) == { SenderOf(level, ch[i]) : i \in 1 .. Len(ch) }

\* C31: a send to errorsCh of a level adds one error, comes from a task
\* of the level that has not sent before, finds room in the channel (its
\* capacity is the number of tasks of the level), and happens before the
\* level has joined its tasks and closed the channel
C31_ErrorSendNeverBlocks ==
    [][ \A level \in Levels :
          Len(errs'[level]) > Len(errs[level]) =>
             /\ LevelOpen(level)
             /\ Len(errs[level]) < Len(sortedFiles(level))
             /\ \E e \in Entries :
                   /\ Parent(e) = level
                   /\ pc[e] # "done" /\ pc'[e] = "done"
                   /\ e \notin SendersOf(level, errs[level])
                   /\ SubSeq(errs'[level], 1, Len(errs[level])) = errs[level]
                   /\ Len(errs'[level]) = Len(errs[level]) + 1
                   /\ SenderOf(level, errs'[level][Len(errs'[level])]) = e ]_vars

\* errorsCh of a level is full: each of its tasks has sent an error
C31_ChannelFull ==
    \E level \in Levels :
        /\ Len(sortedFiles(level)) >= 2
        /\ Len(errs[level]) = Len(sortedFiles(level))

\* --------------------------------------------------------------- C32
\* C32: a task that has returned holds no slot, whatever its way out, and
\* once the pass is joined, and so whenever StartSync returns, no slot of
\* the pool is held
C32_SlotsReleased ==
    /\ \A e \in Entries : pc[e] \in {"idle", "wait", "done"} => e \notin held
    /\ phase \in {"joined", "deleting", "returned"} => held = {}

\* a run has returned after a task failed, with all slots free
C32_FailedRunReturned ==
    /\ Returned
    /\ result = "err"
    /\ passErr.kind = "level"
    /\ \E e \in Entries : pc[e] = "done" /\ OwnErrors(e) # {}
    /\ held = {}

\* --------------------------------------------------------------- C33
\* C33: a pull into an empty destination in which no I/O call fails and
\* whose source holds both f and f.download returns with both files at the
\* destination, each with the content and time of its own source file: no
\* download writes to the path another one uses
C33_NoDownloadCollision ==
    (/\ Returned /\ result = "nil" /\ faults = 0
     /\ config.Mode = Restore
     /\ run = 1 /\ dst0 = {}
     /\ Src[<<"f">>].kind = "file"
     /\ Src[<<"f.download">>].kind = "file")
        => \A e \in { <<"f">>, <<"f.download">> } :
              /\ Dst[e].kind = "file"
              /\ Dst[e].data = Src[e].data
              /\ Dst[e].mtime = Src[e].mtime

\* --------------------------------------------------------------- C34
\* C34: with max_retries <= 0 util.Retry never calls the transfer and
\* returns an error: every file found to need a transfer is reported as
\* failed by its task, and no transfer of it has been called
C34_NoAttemptsAllFail ==
    config.MaxRetries <= 0 =>
        \A e \in FileEntries :
            (dec[e].made /\ dec[e].needs) =>
                /\ rt[e].pc = "returned"
                /\ rt[e].ret = "err"
                /\ rt[e].outs = <<>>
                /\ rt[e].msg = RetryError(config.MaxRetries, NoErr)
                /\ e \notin xfers
                /\ pc[e] = "done"
                /\ \E i \in OwnErrors(e) : errs[Parent(e)][i].kind = "retry"

\* a run with max_retries <= 0 has returned an error: both files needed a
\* transfer, both are reported as failed, no transfer was called
C34_RunFailedUntried ==
    /\ config.MaxRetries <= 0
    /\ Returned
    /\ result = "err"
    /\ \A e \in { <<"d", "f">>, <<"d", "g">> } : dec[e].made /\ dec[e].needs
    /\ Len(errs[<<"d">>]) = 2
    /\ xfers = {}

====
